---------------------------- MODULE Spec2Model ----------------------------
(***************************************************************************)
(* Model of the IPython console plugin of Spyder                           *)
(* (spyderlib/plugins/ipythonconsole.py): the list of IPython clients      *)
(* (IPythonConsole.shellwidgets), the kernels of the external console they *)
(* are attached to, and the operations that create, close, move and        *)
(* restart them.                                                           *)
(*                                                                         *)
(* Strings are TLA+ strings; a character is a string of length 1.          *)
(* A client is identified by the number of its creation (id(shellwidget)), *)
(* a kernel widget by the number of its start (id(kernel_widget));         *)
(* None is 0.                                                              *)
(***************************************************************************)
EXTENDS Integers, Sequences, FiniteSets, TLC

\* Bounds of the model
MaxClients == 2      \* clients created in one run
MaxKernels == 2      \* kernels started in one run
MoreClients == 3     \* the same, for the longer runs of SpecMore
MoreKernels == 3
DialogClients == 3   \* the same, for the runs of SpecDialog
DialogKernels == 1
TabClients == 3      \* the same, for the runs of SpecTabs
TabKernels == 1
FrameClients == 2    \* the same, for the runs of SpecFrame
FrameKernels == 2

None == 0

VARIABLES
    shellwidgets,   \* IPythonConsole.shellwidgets: client ids in tab order
    clients,        \* every IPythonClient created so far, by id
    current,        \* client shown by tabwidget.currentWidget(), or None
    kernels,        \* main.extconsole.shellwidgets: running kernel widgets
    nstarted,       \* number of kernels started so far
    pending,        \* kernels started by create_new_kernel, not yet ready
    last            \* the operation that led to this state (history)

vars == <<shellwidgets, clients, current, kernels, nstarted, pending, last>>

----------------------------------------------------------------------------
\* Sequences and characters

Range(s) == {s[i] : i \in 1..Len(s)}

IndexOf(s, x) ==
    IF x \in Range(s) THEN CHOOSE i \in 1..Len(s) : s[i] = x ELSE None

RemoveAt(s, i) == SubSeq(s, 1, i - 1) \o SubSeq(s, i + 1, Len(s))

RemoveElt(s, x) == RemoveAt(s, IndexOf(s, x))

InsertAt(s, i, x) == SubSeq(s, 1, i - 1) \o <<x>> \o SubSeq(s, i, Len(s))

Char(s, i) == SubSeq(s, i, i)

DigitChars == {"0", "1", "2", "3", "4", "5", "6", "7", "8", "9"}

\* the character class [a-fA-F0-9-]
HexChars == DigitChars \cup {"a", "b", "c", "d", "e", "f",
                             "A", "B", "C", "D", "E", "F", "-"}

Digits == <<"0", "1", "2", "3", "4", "5", "6", "7", "8", "9">>

RECURSIVE Str(_)
\* str(n) for a natural number n
Str(n) == IF n < 10 THEN Digits[n + 1]
          ELSE Str(n \div 10) \o Digits[(n % 10) + 1]

Letters == <<"A", "B", "C", "D", "E", "F", "G", "H", "I", "J", "K", "L", "M",
             "N", "O", "P", "Q", "R", "S", "T", "U", "V", "W", "X", "Y", "Z">>

\* chr(65 + count)
Chr65(count) == Letters[count + 1]

\* Length of the longest run of characters of class cls that starts at
\* position i of s
RECURSIVE RunLen(_, _, _)
RunLen(s, i, cls) ==
    IF i <= Len(s) /\ Char(s, i) \in cls THEN 1 + RunLen(s, i + 1, cls) ELSE 0

NoMatch == <<>>

\* re.match('^kernel-(<cls>+).json', s): the group, as <<group>>, or NoMatch.
\* The class is greedy and gives characters back until '.json' matches,
\* where '.' is any character.
MatchKernel(s, cls) ==
    IF Len(s) < 7 \/ SubSeq(s, 1, 7) # "kernel-" THEN NoMatch
    ELSE LET run == RunLen(s, 8, cls)
             fits == {n \in 1..run :
                        /\ 8 + n + 4 <= Len(s)
                        /\ Char(s, 8 + n) # "\n"
                        /\ SubSeq(s, 8 + n + 1, 8 + n + 4) = "json"}
         IN IF fits = {} THEN NoMatch
            ELSE LET n == CHOOSE m \in fits : \A o \in fits : o <= m
                 IN <<SubSeq(s, 8, 7 + n)>>


----------------------------------------------------------------------------
\* Kernels of the external console

\* connection file of kernel widget k: 'kernel-<pid>.json', one pid per kernel
ConnectionFile(k) == "kernel-" \o Str(k) \o ".json"

\* connection files of kernels that are not run by the external console
RemoteFiles == {"kernel-ab.json"}

\* connection files a caller can name
ConnFiles == {ConnectionFile(k) : k \in 1..nstarted} \cup RemoteFiles

\* console.get_shell_index_from_id(shell_id): index of the kernel, or None
ShellIndexFromId(kn, id) == IndexOf(kn, id)

\* the connection file can be opened: its kernel is in the external console
\* or it is a remote one
CanOpen(cf) ==
    cf \in RemoteFiles \/ \E k \in Range(kernels) : ConnectionFile(k) = cf

----------------------------------------------------------------------------
\* new_client: client name and kernel_widget_id

\* _("Console") + " " + client_name
GetName(client_name) == "Console " \o client_name

\* the first registered client whose client_name is name, or None
ClientNamed(sw, cl, name) ==
    LET hits == {i \in 1..Len(sw) : cl[sw[i]].client_name = name}
    IN IF hits = {} THEN None
       ELSE sw[CHOOSE i \in hits : \A j \in hits : i <= j]

\* Variant of GenerateName: the first candidate is taken without looking at
\* the registered clients
GenerateNameNoRetry(sw, cl, frag, count, kernel_widget_id) ==
    [client_name |-> frag \o "/" \o Chr65(count),
     kernel_widget_id |-> kernel_widget_id, count |-> count]

RECURSIVE GenerateNameSkipsLetter(_, _, _, _, _)
\* Variant of GenerateName: after a name that is taken, the next letter but
\* one is tried
GenerateNameSkipsLetter(sw, cl, frag, count, kernel_widget_id) ==
    LET client_name == frag \o "/" \o Chr65(count)
        clw == ClientNamed(sw, cl, client_name)
    IN IF clw = None
       THEN [client_name |-> client_name, kernel_widget_id |-> kernel_widget_id,
             count |-> count]
       ELSE GenerateNameSkipsLetter(sw, cl, frag, count + 2,
                                    cl[clw].kernel_widget_id)

RECURSIVE GenerateNameJumps(_, _, _, _, _)
\* Variant of GenerateName: after a name that is taken, the next candidate
\* is past as many letters as there are registered clients
GenerateNameJumps(sw, cl, frag, count, kernel_widget_id) ==
    LET client_name == frag \o "/" \o Chr65(count)
        clw == ClientNamed(sw, cl, client_name)
    IN IF clw = None
       THEN [client_name |-> client_name, kernel_widget_id |-> kernel_widget_id,
             count |-> count]
       ELSE GenerateNameJumps(sw, cl, frag, count + Len(sw) + 1,
                              cl[clw].kernel_widget_id)

RECURSIVE GenerateName(_, _, _, _, _)
\* the while loop of new_client: tries frag/A, frag/B, ...; a client that
\* already has the name gives its kernel_widget_id and the next letter is tried
GenerateName(sw, cl, frag, count, kernel_widget_id) ==
    LET client_name == frag \o "/" \o Chr65(count)
        clw == ClientNamed(sw, cl, client_name)
    IN IF clw = None
       THEN [client_name |-> client_name, kernel_widget_id |-> kernel_widget_id,
             count |-> count]
       ELSE GenerateName(sw, cl, frag, count + 1, cl[clw].kernel_widget_id)

\* Variant of KernelIdFromConsole: the first kernel of the external console
\* is taken whatever its connection file
KernelIdFromConsoleAnyFile(kn, cf, kernel_widget_id) ==
    IF kernel_widget_id # None THEN kernel_widget_id
    ELSE IF kn = <<>> THEN None ELSE kn[1]

\* kernel_widget_id from the currently opened kernels when it is still None
KernelIdFromConsole(kn, cf, kernel_widget_id) ==
    IF kernel_widget_id # None THEN kernel_widget_id
    ELSE LET hits == {i \in 1..Len(kn) : ConnectionFile(kn[i]) = cf}
         IN IF hits = {} THEN None
            ELSE kn[CHOOSE i \in hits : \A j \in hits : j <= i]

\* Variant of SpyderKernel: the last kernel of the external console is taken
\* whatever its connection file
SpyderKernelAnyFile(kn, cf) ==
    IF kn # <<>> THEN kn[Len(kn)] ELSE None

\* register_client: the kernel the interrupt and restart requests are wired
\* to, which is the last kernel of the external console or None
SpyderKernel(kn, cf) ==
    IF kn # <<>> /\ ConnectionFile(kn[Len(kn)]) = cf THEN kn[Len(kn)] ELSE None

\* IPythonClient.__init__ and the connections made by register_client
NewClientRecord(cf, kernel_widget_id, client_name, spyder_kernel) ==
    [connection_file  |-> cf,
     kernel_widget_id |-> kernel_widget_id,
     client_name      |-> client_name,
     tab_text         |-> GetName(client_name),
     kernel_manager   |-> cf,
     interrupt_to     |-> spyder_kernel,
     restart_wired    |-> spyder_kernel # None,
     custom_restart   |-> TRUE]

\* Variant of AddTab: the client is put first
AddTabFirst(sw, widget) == <<widget>> \o sw

\* add_tab
AddTab(sw, widget) == Append(sw, widget)

\* Variant of RegisterClient: the client is built and its tab added before
\* the connection file is opened, and stays when that fails
RegisterClientLateFailure(reg, kn, cf, kernel_widget_id, client_name, ok) ==
    LET widget == Len(reg.cl) + 1
    IN [sw  |-> AddTab(reg.sw, widget),
        cl  |-> Append(reg.cl,
                   NewClientRecord(cf, kernel_widget_id, client_name,
                                   SpyderKernel(kn, cf))),
        cur |-> widget]

\* register_client(connection_file, kernel_widget_id, client_name) run on
\* reg = [sw, cl, cur]; ok: ipython_app.create_new_client opens the
\* connection file, otherwise it raises IOError before anything is built
RegisterClient(reg, kn, cf, kernel_widget_id, client_name, ok) ==
    IF ~ok THEN reg
    ELSE LET widget == Len(reg.cl) + 1
         IN [sw  |-> AddTab(reg.sw, widget),
             cl  |-> Append(reg.cl,
                        NewClientRecord(cf, kernel_widget_id, client_name,
                                        SpyderKernel(kn, cf))),
             cur |-> widget]

\* new_client(connection_file, kernel_widget_id) with a connection file
NewClient(maxc, cf, kwid, ok) ==
    /\ Len(clients) < maxc
    /\ ok => CanOpen(cf)
    /\ LET match == MatchKernel(cf, HexChars)
           gen == GenerateName(shellwidgets, clients, match[1], 0, kwid)
           id == KernelIdFromConsole(kernels, cf, gen.kernel_widget_id)
           reg == RegisterClient([sw |-> shellwidgets, cl |-> clients,
                                  cur |-> current],
                                 kernels, cf, id, gen.client_name, ok)
       IN /\ match # NoMatch
          /\ shellwidgets' = reg.sw
          /\ clients' = reg.cl
          /\ current' = reg.cur
          /\ last' = [op |-> "new_client", ok |-> ok, kwid |-> kwid,
                      widget |-> IF ok THEN Len(clients) + 1 ELSE None,
                      cf |-> cf, name |-> gen.client_name,
                      matched |-> gen.kernel_widget_id]
    /\ UNCHANGED <<kernels, nstarted, pending>>

----------------------------------------------------------------------------
\* new_client without a connection file: the input dialog

\* (.json|$) at position i of s: any character but a newline followed by
\* 'json', or the end of s, or the newline that ends s
TailFits(s, i) ==
    \/ /\ i + 4 <= Len(s)
       /\ Char(s, i) # "\n"
       /\ SubSeq(s, i + 1, i + 4) = "json"
    \/ i = Len(s) + 1
    \/ i = Len(s) /\ Char(s, i) = "\n"

\* ([a-fA-F0-9-]+)(.json|$) from position start of s: the first group, as
\* <<group>>, or NoMatch; the class is greedy and gives characters back
GroupFrom(s, start) ==
    LET run == RunLen(s, start, HexChars)
        fits == {n \in 1..run : TailFits(s, start + n)}
    IN IF fits = {} THEN NoMatch
       ELSE LET n == CHOOSE m \in fits : \A o \in fits : o <= m
            IN <<SubSeq(s, start, start + n - 1)>>

\* Variant of DialogMatch: only the alternative 'kernel-' of the first group
DialogMatchPrefixOnly(s) ==
    IF Len(s) >= 7 /\ SubSeq(s, 1, 7) = "kernel-" THEN GroupFrom(s, 8)
    ELSE NoMatch

\* re.match('(kernel-|^)([a-fA-F0-9-]+)(.json|$)', s): groups()[1], as
\* <<kernel_num>>, or NoMatch when re.match returns None. The alternative
\* 'kernel-' is tried first, then the empty one.
DialogMatch(s) ==
    LET prefixed == IF Len(s) >= 7 /\ SubSeq(s, 1, 7) = "kernel-"
                    THEN GroupFrom(s, 8) ELSE NoMatch
    IN IF prefixed # NoMatch THEN prefixed ELSE GroupFrom(s, 1)

\* kernel identifiers typed in the dialog
DialogFragments == {"1", "ab", "F-0"}

\* the three ways of naming the kernel of fragment f
Forms(f) == {f, "kernel-" \o f, "kernel-" \o f \o ".json"}

\* texts typed in the dialog
DialogTexts ==
    UNION {Forms(f) : f \in DialogFragments} \cup {"", "x", "kernel-", "1x"}

\* new_client() with no connection file: QInputDialog.getText gives
\* (text, valid). A dialog that is cancelled returns; a text that re.match
\* does not match makes match.groups() raise AttributeError, which nothing
\* catches; otherwise cf = 'kernel-%s.json' % kernel_num and the call goes on
\* as new_client(cf) does.
NewClientDialog(maxc, text, valid, ok) ==
    /\ Len(clients) < maxc
    /\ LET match == DialogMatch(text)
       IN IF ~valid \/ match = NoMatch
          THEN /\ last' = [op |-> "dialog", text |-> text,
                           outcome |-> IF valid THEN "AttributeError"
                                       ELSE "return"]
               /\ UNCHANGED <<shellwidgets, clients, current>>
          ELSE LET cf == "kernel-" \o match[1] \o ".json"
                   match2 == MatchKernel(cf, HexChars)
                   gen == GenerateName(shellwidgets, clients, match2[1], 0,
                                       None)
                   id == KernelIdFromConsole(kernels, cf,
                                             gen.kernel_widget_id)
                   reg == RegisterClient([sw |-> shellwidgets,
                                          cl |-> clients, cur |-> current],
                                         kernels, cf, id, gen.client_name, ok)
               IN /\ ok => CanOpen(cf)
                  /\ match2 # NoMatch
                  /\ shellwidgets' = reg.sw
                  /\ clients' = reg.cl
                  /\ current' = reg.cur
                  /\ last' = [op |-> "dialog", text |-> text,
                              outcome |-> IF ok THEN "registered"
                                          ELSE "IOError",
                              widget |-> IF ok THEN Len(clients) + 1
                                         ELSE None,
                              cf |-> cf, name |-> gen.client_name,
                              matched |-> gen.kernel_widget_id]
    /\ UNCHANGED <<kernels, nstarted, pending>>

----------------------------------------------------------------------------
\* close_console and close_related_ipython_clients

Answers == {"Yes", "No", "Cancel"}

\* tabwidget.removeTab: the widget shown after widget's tab is removed (the
\* tab to the right of a removed current tab, else the last one)
CurrentAfterRemove(sw, cur, widget) ==
    LET i == IndexOf(sw, widget)
        rest == RemoveAt(sw, i)
    IN IF cur # widget THEN cur
       ELSE IF rest = <<>> THEN None
       ELSE IF i <= Len(rest) THEN rest[i] ELSE rest[Len(rest)]

\* console.close_console(index=idx, from_ipython_client=True): the external
\* console closes the kernel at idx; with no index nothing is closed
ConsoleCloseConsole(kn, idx) == IF idx = None THEN kn ELSE RemoveAt(kn, idx)

\* Variant of CloseEvent: custom_restart is left as it is
CloseEventKeepsSignal(client) ==
    [connection_file  |-> "",
     kernel_widget_id |-> None,
     client_name      |-> "",
     tab_text         |-> "",
     kernel_manager   |-> client.kernel_manager,
     interrupt_to     |-> None,
     restart_wired    |-> FALSE,
     custom_restart   |-> client.custom_restart]

\* widget.close(): closeEvent clears custom_restart of the IPython widget.
\* Of a closed client only the IPython widget stays observable (its kernel
\* manager and custom_restart); the other attributes are never read again.
CloseEvent(client) ==
    [connection_file  |-> "",
     kernel_widget_id |-> None,
     client_name      |-> "",
     tab_text         |-> "",
     kernel_manager   |-> client.kernel_manager,
     interrupt_to     |-> None,
     restart_wired    |-> FALSE,
     custom_restart   |-> FALSE]

\* widget.close(), removeTab and shellwidgets.remove(widget), the end of
\* close_console; remove raises ValueError for a widget no longer listed
CloseWidget(st, widget) ==
    IF st.err THEN st
    ELSE IF widget \notin Range(st.sw)
    THEN [st EXCEPT !.cl[widget] = CloseEvent(@), !.err = TRUE]
    ELSE [st EXCEPT !.cl[widget] = CloseEvent(@),
                    !.cur = CurrentAfterRemove(st.sw, st.cur, widget),
                    !.sw = RemoveElt(st.sw, widget)]

RECURSIVE CloseFrame(_, _, _), CloseRelated(_, _, _, _)

\* Variant of CloseFrame: force is not looked at
CloseFrameForceIgnored(st, widget, force) ==
    IF st.err \/ st.sw = <<>> THEN {st}
    ELSE IF widget \notin Range(st.sw)
    THEN {[st EXCEPT !.err = TRUE]}
    ELSE
      LET idx == ShellIndexFromId(st.kn, st.cl[widget].kernel_widget_id)
          asked(ans) == [st EXCEPT !.answers = Append(@, ans)]
          all(s) == CloseRelated(
                       {[s EXCEPT !.kn = ConsoleCloseConsole(s.kn, idx)]},
                       s.sw, 1, widget)
      IN IF idx = None THEN {CloseWidget(st, widget)}
         ELSE IF ~st.ask THEN {CloseWidget(s, widget) : s \in all(st)}
         ELSE {asked("Cancel")}
              \cup {CloseWidget(asked("No"), widget)}
              \cup {CloseWidget(s, widget) : s \in all(asked("Yes"))}

\* Variant of CloseFrame: close_all starts False, so that nothing but the
\* client is closed when 'ask_before_closing' is off
CloseFrameCloseAllFalse(st, widget, force) ==
    IF st.err \/ st.sw = <<>> THEN {st}
    ELSE IF widget \notin Range(st.sw)
    THEN {[st EXCEPT !.err = TRUE]}
    ELSE
      LET idx == ShellIndexFromId(st.kn, st.cl[widget].kernel_widget_id)
          asked(ans) == [st EXCEPT !.answers = Append(@, ans)]
          all(s) == CloseRelated(
                       {[s EXCEPT !.kn = ConsoleCloseConsole(s.kn, idx)]},
                       s.sw, 1, widget)
      IN IF force \/ idx = None THEN {CloseWidget(st, widget)}
         ELSE IF ~st.ask THEN {CloseWidget(st, widget)}
         ELSE {asked("Cancel")}
              \cup {CloseWidget(asked("No"), widget)}
              \cup {CloseWidget(s, widget) : s \in all(asked("Yes"))}

\* Variant of CloseFrame: the answer Cancel does not return, the client is
\* closed as for the answer No
CloseFrameCancelCloses(st, widget, force) ==
    IF st.err \/ st.sw = <<>> THEN {st}
    ELSE IF widget \notin Range(st.sw)
    THEN {[st EXCEPT !.err = TRUE]}
    ELSE
      LET idx == ShellIndexFromId(st.kn, st.cl[widget].kernel_widget_id)
          asked(ans) == [st EXCEPT !.answers = Append(@, ans)]
          all(s) == CloseRelated(
                       {[s EXCEPT !.kn = ConsoleCloseConsole(s.kn, idx)]},
                       s.sw, 1, widget)
      IN IF force \/ idx = None THEN {CloseWidget(st, widget)}
         ELSE IF ~st.ask THEN {CloseWidget(s, widget) : s \in all(st)}
         ELSE {CloseWidget(asked("Cancel"), widget)}
              \cup {CloseWidget(asked("No"), widget)}
              \cup {CloseWidget(s, widget) : s \in all(asked("Yes"))}

\* Variant of CloseFrame: close_all is set for every answer but Cancel, so
\* that the answer No closes the kernel and the related clients too
CloseFrameNoClosesAll(st, widget, force) ==
    IF st.err \/ st.sw = <<>> THEN {st}
    ELSE IF widget \notin Range(st.sw)
    THEN {[st EXCEPT !.err = TRUE]}
    ELSE
      LET idx == ShellIndexFromId(st.kn, st.cl[widget].kernel_widget_id)
          asked(ans) == [st EXCEPT !.answers = Append(@, ans)]
          all(s) == CloseRelated(
                       {[s EXCEPT !.kn = ConsoleCloseConsole(s.kn, idx)]},
                       s.sw, 1, widget)
      IN IF force \/ idx = None THEN {CloseWidget(st, widget)}
         ELSE IF ~st.ask THEN {CloseWidget(s, widget) : s \in all(st)}
         ELSE {asked("Cancel")}
              \cup {CloseWidget(s, widget) : s \in all(asked("No"))}
              \cup {CloseWidget(s, widget) : s \in all(asked("Yes"))}

\* close_console(widget=widget, force=force) run on st = [sw, kn, cl, cur,
\* ask, answers, err]: the set of states it can end in, one for each way the
\* questions it asks are answered. err: an exception left the call.
CloseFrame(st, widget, force) ==
    IF st.err \/ st.sw = <<>> THEN {st}
    ELSE IF widget \notin Range(st.sw)
    THEN {[st EXCEPT !.err = TRUE]}   \* tabwidget.widget(-1) is None
    ELSE
      LET idx == ShellIndexFromId(st.kn, st.cl[widget].kernel_widget_id)
          asked(ans) == [st EXCEPT !.answers = Append(@, ans)]
          all(s) == CloseRelated(
                       {[s EXCEPT !.kn = ConsoleCloseConsole(s.kn, idx)]},
                       s.sw, 1, widget)
      IN IF force \/ idx = None THEN {CloseWidget(st, widget)}
         ELSE IF ~st.ask THEN {CloseWidget(s, widget) : s \in all(st)}
         ELSE {asked("Cancel")}
              \cup {CloseWidget(asked("No"), widget)}
              \cup {CloseWidget(s, widget) : s \in all(asked("Yes"))}

\* close_related_ipython_clients(client): the loop over the copy of
\* shellwidgets, from its i-th element on, run on every state of S
CloseRelated(S, copy, i, client) ==
    IF i > Len(copy) THEN S
    ELSE LET clw == copy[i]
             step(s) ==
                IF s.err THEN {s}
                ELSE IF /\ clw # client
                        /\ s.cl[clw].connection_file
                             = s.cl[client].connection_file
                THEN CloseFrame(s, clw, FALSE)
                ELSE {s}
         IN CloseRelated(UNION {step(s) : s \in S}, copy, i + 1, client)

\* close_console for a registered client; ask: the option
\* 'ask_before_closing'
CloseConsole(widget, force, ask) ==
    /\ widget \in Range(shellwidgets)
    /\ \E st \in CloseFrame([sw |-> shellwidgets, kn |-> kernels,
                             cl |-> clients, cur |-> current, ask |-> ask,
                             answers |-> <<>>, err |-> FALSE], widget, force) :
          /\ shellwidgets' = st.sw
          /\ kernels' = st.kn
          /\ clients' = st.cl
          /\ current' = st.cur
          /\ last' = [op |-> "close", widget |-> widget, force |-> force,
                      ask |-> ask, answers |-> st.answers, err |-> st.err,
                      kernel |-> clients[widget].kernel_widget_id,
                      removed |-> Range(shellwidgets) \ Range(st.sw)]
    /\ UNCHANGED <<nstarted, pending>>

\* Variant of MoveTab: the two tabs are exchanged
MoveTabExchanges(index_from, index_to) ==
    /\ index_from \in 1..Len(shellwidgets)
    /\ index_to \in 1..Len(shellwidgets)
    /\ LET shell == shellwidgets[index_from]
       IN /\ shellwidgets' = [shellwidgets EXCEPT
                                ![index_from] = shellwidgets[index_to],
                                ![index_to] = shell]
          /\ last' = [op |-> "move_tab", from |-> index_from,
                      to |-> index_to, widget |-> shell]
    /\ UNCHANGED <<clients, current, kernels, nstarted, pending>>

\* move_tab(index_from, index_to); the tab widget has moved the tab itself
MoveTab(index_from, index_to) ==
    /\ index_from \in 1..Len(shellwidgets)
    /\ index_to \in 1..Len(shellwidgets)
    /\ LET shell == shellwidgets[index_from]
       IN /\ shellwidgets' = InsertAt(RemoveAt(shellwidgets, index_from),
                                      index_to, shell)
          /\ last' = [op |-> "move_tab", from |-> index_from,
                      to |-> index_to, widget |-> shell]
    /\ UNCHANGED <<clients, current, kernels, nstarted, pending>>

\* the user selects the tab of a client
SelectTab(widget) ==
    /\ widget \in Range(shellwidgets)
    /\ widget # current
    /\ current' = widget
    /\ last' = [op |-> "select", widget |-> widget]
    /\ UNCHANGED <<shellwidgets, clients, kernels, nstarted, pending>>

----------------------------------------------------------------------------
\* Restart: create_new_kernel, connect_to_new_kernel

\* rename_ipython_client_tab: the new text of the client's tab
RenamedTab(connection_file, old_text) ==
    LET match == MatchKernel(connection_file, DigitChars)
    IN IF match # NoMatch THEN "Console " \o match[1] \o "/" \o Chr65(0)
       ELSE old_text

\* Variant of RequestRestart: the answer to the question is not looked at
RequestRestartIgnoresAnswer(maxk, widget, ans) ==
    /\ widget \in Range(shellwidgets)
    /\ widget = current
    /\ IF clients[widget].restart_wired
       THEN /\ nstarted < maxk
            /\ nstarted' = nstarted + 1
            /\ kernels' = Append(kernels, nstarted + 1)
            /\ pending' = pending \cup {[kernel |-> nstarted + 1,
                                         origin |-> widget]}
       ELSE UNCHANGED <<nstarted, kernels, pending>>
    /\ last' = [op |-> "restart", widget |-> widget,
                wired |-> clients[widget].restart_wired, ans |-> ans]
    /\ UNCHANGED <<shellwidgets, clients, current>>

\* Variant of RequestRestart: the kernel of the client is closed as soon as
\* the question is answered Yes, before the new kernel is started
RequestRestartClosesFirst(maxk, widget, ans) ==
    /\ widget \in Range(shellwidgets)
    /\ widget = current
    /\ IF clients[widget].restart_wired /\ ans = "Yes"
       THEN /\ nstarted < maxk
            /\ nstarted' = nstarted + 1
            /\ kernels' =
                 Append(ConsoleCloseConsole(kernels,
                           ShellIndexFromId(kernels,
                              clients[widget].kernel_widget_id)),
                        nstarted + 1)
            /\ pending' = pending \cup {[kernel |-> nstarted + 1,
                                         origin |-> widget]}
       ELSE UNCHANGED <<nstarted, kernels, pending>>
    /\ last' = [op |-> "restart", widget |-> widget,
                wired |-> clients[widget].restart_wired, ans |-> ans]
    /\ UNCHANGED <<shellwidgets, clients, current>>

\* restart requested from a client: create_new_kernel, or restart_message
\* for a client that is not wired to a kernel of the external console
RequestRestart(maxk, widget, ans) ==
    /\ widget \in Range(shellwidgets)
    /\ widget = current      \* the action is in the client's own toolbar
    /\ IF clients[widget].restart_wired /\ ans = "Yes"
       THEN \* console.start_ipython_kernel(create_client=False)
            /\ nstarted < maxk
            /\ nstarted' = nstarted + 1
            /\ kernels' = Append(kernels, nstarted + 1)
            /\ pending' = pending \cup {[kernel |-> nstarted + 1,
                                         origin |-> widget]}
       ELSE UNCHANGED <<nstarted, kernels, pending>>
    /\ last' = [op |-> "restart", widget |-> widget,
                wired |-> clients[widget].restart_wired, ans |-> ans]
    /\ UNCHANGED <<shellwidgets, clients, current>>

\* Variant of ConnectToNewKernel: kernel_widget_id is set before the kernel
\* manager is created, and stays set when that fails
ConnectToNewKernelBindsFirst(p, ok) ==
    /\ p \in pending
    /\ p.kernel \in Range(kernels)
    /\ pending' = pending \ {p}
    /\ LET connection_file == ConnectionFile(p.kernel)
           shellwidget == current
       IN IF shellwidget = None
          THEN /\ UNCHANGED <<kernels, clients>>
               /\ last' = [op |-> "connect", kernel |-> p.kernel,
                           origin |-> p.origin, widget |-> None,
                           old |-> None, ok |-> FALSE]
          ELSE LET old == clients[shellwidget].kernel_widget_id
                   idx == ShellIndexFromId(kernels, old)
               IN /\ kernels' = ConsoleCloseConsole(kernels, idx)
                  /\ clients' =
                       IF ok
                       THEN [clients EXCEPT
                              ![shellwidget].kernel_manager = connection_file,
                              ![shellwidget].kernel_widget_id = p.kernel,
                              ![shellwidget].tab_text =
                                  RenamedTab(connection_file, @)]
                       ELSE [clients EXCEPT
                              ![shellwidget].kernel_widget_id = p.kernel]
                  /\ last' = [op |-> "connect", kernel |-> p.kernel,
                              origin |-> p.origin, widget |-> shellwidget,
                              old |-> old, ok |-> ok]
    /\ UNCHANGED <<shellwidgets, current, nstarted>>

\* Variant of ConnectToNewKernel: every client that has the old
\* kernel_widget_id is given the new one
ConnectToNewKernelRebindsAll(p, ok) ==
    /\ p \in pending
    /\ p.kernel \in Range(kernels)
    /\ pending' = pending \ {p}
    /\ LET connection_file == ConnectionFile(p.kernel)
           shellwidget == current
       IN IF shellwidget = None
          THEN /\ UNCHANGED <<kernels, clients>>
               /\ last' = [op |-> "connect", kernel |-> p.kernel,
                           origin |-> p.origin, widget |-> None,
                           old |-> None, ok |-> FALSE]
          ELSE LET old == clients[shellwidget].kernel_widget_id
                   idx == ShellIndexFromId(kernels, old)
               IN /\ kernels' = ConsoleCloseConsole(kernels, idx)
                  /\ clients' =
                       IF ok
                       THEN [c \in DOMAIN clients |->
                              IF c \in Range(shellwidgets)
                                 /\ clients[c].kernel_widget_id = old
                              THEN [clients[c] EXCEPT
                                      !.kernel_manager = connection_file,
                                      !.kernel_widget_id = p.kernel,
                                      !.tab_text =
                                          RenamedTab(connection_file, @)]
                              ELSE clients[c]]
                       ELSE clients
                  /\ last' = [op |-> "connect", kernel |-> p.kernel,
                              origin |-> p.origin, widget |-> shellwidget,
                              old |-> old, ok |-> ok]
    /\ UNCHANGED <<shellwidgets, current, nstarted>>

\* Variant of ConnectToNewKernel: the interrupt of the client is wired to
\* the new kernel
ConnectToNewKernelRewires(p, ok) ==
    /\ p \in pending
    /\ p.kernel \in Range(kernels)
    /\ pending' = pending \ {p}
    /\ LET connection_file == ConnectionFile(p.kernel)
           shellwidget == current
       IN IF shellwidget = None
          THEN /\ UNCHANGED <<kernels, clients>>
               /\ last' = [op |-> "connect", kernel |-> p.kernel,
                           origin |-> p.origin, widget |-> None,
                           old |-> None, ok |-> FALSE]
          ELSE LET old == clients[shellwidget].kernel_widget_id
                   idx == ShellIndexFromId(kernels, old)
               IN /\ kernels' = ConsoleCloseConsole(kernels, idx)
                  /\ clients' =
                       IF ok
                       THEN [clients EXCEPT
                              ![shellwidget].kernel_manager = connection_file,
                              ![shellwidget].kernel_widget_id = p.kernel,
                              ![shellwidget].interrupt_to = p.kernel,
                              ![shellwidget].tab_text =
                                  RenamedTab(connection_file, @)]
                       ELSE clients
                  /\ last' = [op |-> "connect", kernel |-> p.kernel,
                              origin |-> p.origin, widget |-> shellwidget,
                              old |-> old, ok |-> ok]
    /\ UNCHANGED <<shellwidgets, current, nstarted>>

\* connect_to_new_kernel(connection_file, kernel_widget), run when the new
\* kernel emits create_ipython_client; ok: create_kernel_manager succeeds
ConnectToNewKernel(p, ok) ==
    /\ p \in pending
    /\ p.kernel \in Range(kernels)
    /\ pending' = pending \ {p}
    /\ LET connection_file == ConnectionFile(p.kernel)
           shellwidget == current
       IN IF shellwidget = None
          THEN \* None.kernel_widget_id
               /\ UNCHANGED <<kernels, clients>>
               /\ last' = [op |-> "connect", kernel |-> p.kernel,
                           origin |-> p.origin, widget |-> None,
                           old |-> None, ok |-> FALSE]
          ELSE LET old == clients[shellwidget].kernel_widget_id
                   idx == ShellIndexFromId(kernels, old)
               IN /\ kernels' = ConsoleCloseConsole(kernels, idx)
                  /\ clients' =
                       IF ok
                       THEN [clients EXCEPT
                              ![shellwidget].kernel_manager = connection_file,
                              ![shellwidget].kernel_widget_id = p.kernel,
                              ![shellwidget].tab_text =
                                  RenamedTab(connection_file, @)]
                       ELSE clients
                  /\ last' = [op |-> "connect", kernel |-> p.kernel,
                              origin |-> p.origin, widget |-> shellwidget,
                              old |-> old, ok |-> ok]
    /\ UNCHANGED <<shellwidgets, current, nstarted>>

----------------------------------------------------------------------------
\* Interrupt and kernel death

\* interrupt requested from a client: keyboard_interrupt of the kernel it was
\* wired to, or interrupt_message
Interrupt(widget) ==
    /\ widget \in Range(shellwidgets)
    /\ widget = current      \* the action is in the client's own toolbar
    /\ last' = [op |-> "interrupt", widget |-> widget,
                target |-> clients[widget].interrupt_to]
    /\ UNCHANGED <<shellwidgets, clients, current, kernels, nstarted,
                   pending>>

\* the clients whose IPython widget emits custom_restart_kernel_died when the
\* kernel of connection file cf dies, and so run if_kernel_dies
Notified(cl, cf) ==
    {c \in DOMAIN cl : cl[c].kernel_manager = cf /\ cl[c].custom_restart}

\* Variant of KernelDied: the clients of the dead kernel lose their
\* kernel_widget_id
KernelDiedUnbinds(k) ==
    /\ k \in Range(kernels)
    /\ last' = [op |-> "died", kernel |-> k,
                notified |-> Notified(clients, ConnectionFile(k))]
    /\ clients' = [c \in DOMAIN clients |->
                     IF clients[c].kernel_widget_id = k
                     THEN [clients[c] EXCEPT !.kernel_widget_id = None]
                     ELSE clients[c]]
    /\ UNCHANGED <<shellwidgets, current, kernels, nstarted, pending>>

\* a kernel of the external console is found dead: each IPython widget
\* connected to it with custom_restart set emits custom_restart_kernel_died.
\* No code keeps a record of the death, so the state keeps none either.
KernelDied(k) ==
    /\ k \in Range(kernels)
    /\ last' = [op |-> "died", kernel |-> k,
                notified |-> Notified(clients, ConnectionFile(k))]
    /\ UNCHANGED <<shellwidgets, clients, current, kernels, nstarted,
                   pending>>

\* closing_plugin: the main window is closed and every client is closed
\* (closeEvent); the clients stay in shellwidgets
ClosingPlugin ==
    /\ shellwidgets # <<>>
    /\ clients' = [c \in DOMAIN clients |->
                     IF c \in Range(shellwidgets)
                     THEN [clients[c] EXCEPT !.custom_restart = FALSE]
                     ELSE clients[c]]
    /\ last' = [op |-> "closing_plugin"]
    /\ UNCHANGED <<shellwidgets, current, kernels, nstarted, pending>>

\* closing_plugin has run: a client in shellwidgets is closed
PluginClosed ==
    \E c \in Range(shellwidgets) : ~clients[c].custom_restart

\* the user starts a kernel in the external console
StartKernel(maxk) ==
    /\ nstarted < maxk
    /\ nstarted' = nstarted + 1
    /\ kernels' = Append(kernels, nstarted + 1)
    /\ last' = [op |-> "start_kernel", kernel |-> nstarted + 1]
    /\ UNCHANGED <<shellwidgets, clients, current, pending>>

Init ==
    /\ shellwidgets = <<>>
    /\ clients = <<>>
    /\ current = None
    /\ kernels = <<>>
    /\ nstarted = 0
    /\ pending = {}
    /\ last = [op |-> "init"]

\* every step of the plugin, in runs of at most maxc clients and maxk kernels
Step(maxc, maxk) ==
    \/ StartKernel(maxk)
    \/ \E cf \in ConnFiles, ok \in BOOLEAN :
         \E kwid \in {None} \cup {k \in Range(kernels) : ConnectionFile(k) = cf} :
            NewClient(maxc, cf, kwid, ok)
    \/ \E widget \in 1..maxc, force \in BOOLEAN, ask \in BOOLEAN :
            CloseConsole(widget, force, ask)
    \/ \E widget \in 1..maxc : SelectTab(widget)
    \/ \E widget \in 1..maxc, ans \in {"Yes", "No"} :
            RequestRestart(maxk, widget, ans)
    \/ \E p \in pending, ok \in BOOLEAN : ConnectToNewKernel(p, ok)
    \/ \E widget \in 1..maxc : Interrupt(widget)
    \/ \E k \in 1..maxk : KernelDied(k)

Next == Step(MaxClients, MaxKernels)

Spec == Init /\ [][Next]_vars

NextMore == Step(MoreClients, MoreKernels)

\* the same program in longer runs
SpecMore == Init /\ [][NextMore]_vars

\* the clients made from the dialog, and closed
NextDialog ==
    \/ StartKernel(DialogKernels)
    \/ \E text \in DialogTexts, valid \in BOOLEAN, ok \in BOOLEAN :
            NewClientDialog(DialogClients, text, valid, ok)
    \/ \E widget \in 1..DialogClients, force \in BOOLEAN, ask \in BOOLEAN :
            CloseConsole(widget, force, ask)

SpecDialog == Init /\ [][NextDialog]_vars

\* new_client checks nowhere that kernel_widget_id is the kernel of
\* connection_file: here its caller gives the id of any running kernel
NextCaller ==
    \/ StartKernel(MaxKernels)
    \/ \E cf \in ConnFiles, ok \in BOOLEAN :
         \E kwid \in {None} \cup Range(kernels) :
            NewClient(MaxClients, cf, kwid, ok)
    \/ \E widget \in 1..MaxClients, force \in BOOLEAN, ask \in BOOLEAN :
            CloseConsole(widget, force, ask)

SpecCaller == Init /\ [][NextCaller]_vars

\* clients made, closed, and their tabs dragged
NextTabs ==
    \/ StartKernel(TabKernels)
    \/ \E cf \in ConnFiles :
            NewClient(TabClients, cf, None, TRUE)
    \/ \E widget \in 1..TabClients : CloseConsole(widget, TRUE, FALSE)
    \/ \E index_from \in 1..TabClients, index_to \in 1..TabClients :
            MoveTab(index_from, index_to)

SpecTabs == Init /\ [][NextTabs]_vars

\* every operation that is not a choice of tab: clients made, closed,
\* dragged, interrupted, restarted, and kernels that die
NextFrame ==
    \/ StartKernel(FrameKernels)
    \/ \E cf \in ConnFiles : NewClient(FrameClients, cf, None, TRUE)
    \/ \E widget \in 1..FrameClients, force \in BOOLEAN :
            CloseConsole(widget, force, TRUE)
    \/ \E index_from \in 1..FrameClients, index_to \in 1..FrameClients :
            MoveTab(index_from, index_to)
    \/ \E widget \in 1..FrameClients :
            RequestRestart(FrameKernels, widget, "Yes")
    \/ \E p \in pending : ConnectToNewKernel(p, TRUE)
    \/ \E widget \in 1..FrameClients : Interrupt(widget)
    \/ \E k \in 1..FrameKernels : KernelDied(k)

SpecFrame == Init /\ [][NextFrame]_vars

\* clients made and closed and kernels that die, until the main window is
\* closed; kernels can still die after that
NextShutdown ==
    \/ ~PluginClosed /\ StartKernel(MaxKernels)
    \/ ~PluginClosed /\ \E cf \in ConnFiles :
                            NewClient(MaxClients, cf, None, TRUE)
    \/ ~PluginClosed /\ \E widget \in 1..MaxClients, force \in BOOLEAN,
                            ask \in BOOLEAN :
                            CloseConsole(widget, force, ask)
    \/ ~PluginClosed /\ ClosingPlugin
    \/ \E k \in 1..MaxKernels : KernelDied(k)

SpecShutdown == Init /\ [][NextShutdown]_vars

----------------------------------------------------------------------------
\* Properties

Registered == Range(shellwidgets)

\* the step is a call of close_console(widget=w, force=..)
IsClose == last'.op = "close"

\* the clients close_related_ipython_clients(w) relates to w
Related(w) ==
    {c \in Registered \ {w} :
        clients[c].connection_file = clients[w].connection_file}

\* the clients whose kernel_widget_id is k
BoundTo(k) == {c \in Registered : clients[c].kernel_widget_id = k}

\* the kernel of client w is a kernel of the external console
Supervised(w) ==
    ShellIndexFromId(kernels, clients[w].kernel_widget_id) # None

\* the clients that were registered before the step keep their attributes
OthersUnchanged == \A c \in Range(shellwidgets') : clients'[c] = clients[c]

\* C1: no two registered clients have the same client_name
C1_UniqueNames ==
    \A c \in Registered, d \in Registered :
        c # d => clients[c].client_name # clients[d].client_name

C1_Witness ==
    \E c \in Registered, d \in Registered :
        /\ c # d
        /\ clients[c].connection_file = clients[d].connection_file

\* C2: after a successful restart the client is still registered, its
\* kernel_widget_id differs from the one before, its client_name is built
\* from the fragment of the new kernel's connection file and differs from the
\* name of every other registered client
C2_RestartRenames ==
    (last.op = "connect" /\ last.ok) =>
        LET w == last.widget
            frag == MatchKernel(ConnectionFile(last.kernel), HexChars)[1]
        IN /\ w \in Registered
           /\ clients[w].kernel_widget_id # last.old
           /\ \E n \in 0..Len(shellwidgets) :
                 clients[w].client_name = frag \o "/" \o Chr65(n)
           /\ \A c \in Registered \ {w} :
                 clients[c].client_name # clients[w].client_name

C5_CancelChangesNothing ==
    [][(IsClose /\ last'.answers = <<"Cancel">>) =>
          UNCHANGED <<shellwidgets, clients, current, kernels, nstarted,
                      pending>>]_vars

C5_Witness ==
    /\ last.op = "close" /\ last.answers = <<"Cancel">>
    /\ Cardinality(BoundTo(last.kernel)) >= 2

\* C6: a close whose question is answered Yes closes the kernel of the client
\* and removes exactly the client and the clients bound to the same kernel
C6_YesClosesKernelClients ==
    [][(IsClose /\ last'.answers # <<>> /\ last'.answers[1] = "Yes") =>
          LET w == last'.widget
              k == clients[w].kernel_widget_id
          IN /\ k \notin Range(kernels')
             /\ Registered \ Range(shellwidgets') = {w} \cup BoundTo(k)]_vars

\* C7: a close whose question is answered No removes exactly that client; the
\* kernels, the other clients and their order are unchanged
C7_NoClosesOnlyClient ==
    [][(IsClose /\ last'.answers = <<"No">>) =>
          /\ shellwidgets' = RemoveElt(shellwidgets, last'.widget)
          /\ kernels' = kernels
          /\ OthersUnchanged]_vars

C7_Witness ==
    /\ last.op = "close" /\ last.answers = <<"No">>
    /\ last.kernel \in Range(kernels)
    /\ BoundTo(last.kernel) # {}

\* C8: a close either was cancelled and removed nothing, or removed every
\* client it decided to remove: the client and, when it closes the kernel,
\* all the related clients
C8_CloseIsAtomic ==
    [][IsClose =>
          LET w == last'.widget
              cancelled == last'.answers = <<"Cancel">>
              cascade == /\ ~last'.force /\ Supervised(w)
                         /\ (last'.ask => last'.answers[1] = "Yes")
              decided == IF cascade THEN {w} \cup Related(w) ELSE {w}
          IN IF cancelled
             THEN shellwidgets' = shellwidgets /\ kernels' = kernels
             ELSE \A c \in decided : c \notin Range(shellwidgets')]_vars

\* C9: when kernel k is found dead, the clients bound to k, and no others,
\* are notified, and the registry is unchanged
C9_DeathNotifiesBound ==
    [][last'.op = "died" =>
          /\ last'.notified = BoundTo(last'.kernel)
          /\ UNCHANGED <<shellwidgets, clients>>]_vars

C9_Witness ==
    /\ last.op = "died"
    /\ Cardinality(last.notified) >= 2

\* C10: a new_client that fails to open the connection file leaves the
\* registry as it was and creates no client
C10_FailedConnectChangesNothing ==
    [][(last'.op = "new_client" /\ ~last'.ok) =>
          UNCHANGED <<shellwidgets, clients, current, kernels>>]_vars

C10_Witness ==
    /\ last.op = "new_client" /\ ~last.ok
    /\ shellwidgets # <<>>

\* the step is a new_client that got as far as choosing the client's name
IsAllocation ==
    \/ last'.op = "new_client"
    \/ last'.op = "dialog" /\ last'.outcome \in {"registered", "IOError"}

\* the client names in use
Names == {clients[c].client_name : c \in Registered}

\* C11: the name new_client chooses is fragment/L, L the first of the letters
\* A, B, C, .. for which fragment/L is not the name of a registered client;
\* it is the name of no registered client, and the client registered gets it
C11_FirstFreeLetter ==
    [][IsAllocation =>
          LET frag == MatchKernel(last'.cf, HexChars)[1]
              free == {n \in 0..Len(shellwidgets) :
                          frag \o "/" \o Chr65(n) \notin Names}
              first == CHOOSE n \in free : \A m \in free : n <= m
          IN /\ last'.name = frag \o "/" \o Chr65(first)
             /\ last'.name \notin Names
             /\ Names = {} => last'.name = frag \o "/A"
             /\ last'.widget # None =>
                    clients'[last'.widget].client_name = last'.name]_vars

\* a client is registered under letter A while B of the same fragment is
\* in use
C11_Witness ==
    /\ last.op = "dialog" /\ last.outcome = "registered"
    /\ last.name = "ab/A"
    /\ \E c \in Registered : clients[c].client_name = "ab/B"

\* C12: when fragment/A is the name of a registered client, new_client takes
\* as kernel_widget_id the one of that client; when fragment/A is free, the
\* kernel_widget_id given by the caller is kept
C12_ReportsKernelOfFirstName ==
    [][last'.op = "new_client" =>
          LET frag == MatchKernel(last'.cf, HexChars)[1]
              first == ClientNamed(shellwidgets, clients, frag \o "/A")
          IN last'.matched = IF first = None THEN last'.kwid
                             ELSE clients[first].kernel_widget_id]_vars

\* C13: a fragment, 'kernel-<fragment>' and 'kernel-<fragment>.json' typed in
\* the dialog all give the connection file 'kernel-<fragment>.json'
C13_DialogGivesCanonicalFile ==
    \A f \in DialogFragments :
        (/\ last.op = "dialog"
         /\ last.outcome # "return"
         /\ last.text \in Forms(f)) =>
            /\ last.outcome \in {"registered", "IOError"}
            /\ last.cf = "kernel-" \o f \o ".json"

\* a client is made from a bare fragment
C13_Witness ==
    /\ last.op = "dialog" /\ last.outcome = "registered"
    /\ last.text \in DialogFragments
    /\ clients[last.widget].connection_file
          = "kernel-" \o last.text \o ".json"

\* C14: a text of the dialog that names no kernel is refused without an
\* exception leaving new_client, and nothing is registered
C14_BadTextIsRefused ==
    [][(/\ last'.op = "dialog"
        /\ last'.outcome # "return"
        /\ \A f \in DialogFragments : last'.text \notin Forms(f)) =>
          /\ last'.outcome # "AttributeError"
          /\ UNCHANGED <<shellwidgets, clients, current, kernels>>]_vars

\* C15: the client that a restart connects to the new kernel is the client
\* the restart was requested from
C15_RestartRebindsOriginator ==
    [][(last'.op = "connect" /\ last'.ok) =>
          /\ last'.widget = last'.origin
          /\ \A c \in Registered \ {last'.origin} :
                 clients'[c].kernel_widget_id = clients[c].kernel_widget_id]_vars

\* C16: a restart whose question is answered No changes nothing: no kernel
\* is started or closed and no client changes
C16_DeclineChangesNothing ==
    [][(last'.op = "restart" /\ last'.wired /\ last'.ans = "No") =>
          UNCHANGED <<shellwidgets, clients, current, kernels, nstarted,
                      pending>>]_vars

C16_Witness ==
    /\ last.op = "restart" /\ last.wired /\ last.ans = "No"
    /\ Supervised(last.widget)

\* C17: when connect_to_new_kernel fails, every registered client keeps the
\* kernel_widget_id and the kernel manager it had, and stays registered
C17_FailedConnectKeepsBinding ==
    [][(last'.op = "connect" /\ ~last'.ok) =>
          /\ shellwidgets' = shellwidgets
          /\ \A c \in Registered :
                /\ clients'[c].kernel_widget_id = clients[c].kernel_widget_id
                /\ clients'[c].kernel_manager = clients[c].kernel_manager]_vars

C17_Witness ==
    /\ last.op = "connect" /\ ~last.ok
    /\ last.widget \in Registered
    /\ last.old # None
    /\ clients[last.widget].kernel_widget_id = last.old

\* C18: an interrupt requested from a client whose kernel is a kernel of the
\* external console is sent to that kernel
C18_InterruptReachesBoundKernel ==
    (last.op = "interrupt" /\ Supervised(last.widget)) =>
        last.target = clients[last.widget].kernel_widget_id

\* the client has no kernel of the external console: it has no
\* kernel_widget_id or its kernel manager is connected to a remote kernel
NotLocal(w) ==
    \/ clients[w].kernel_widget_id = None
    \/ clients[w].kernel_manager \in RemoteFiles

\* C19: an interrupt or a restart requested from a client of a remote or
\* unspecified kernel reaches no kernel, starts no kernel and changes nothing
C19_RemoteRequestsDoNothing ==
    [][(last'.op \in {"interrupt", "restart"} /\ NotLocal(last'.widget)) =>
          /\ UNCHANGED <<shellwidgets, clients, current, kernels, nstarted,
                         pending>>
          /\ last'.op = "interrupt" => last'.target = None
          /\ last'.op = "restart" => ~last'.wired]_vars

C19_Witness ==
    /\ last.op = "restart" /\ last.ans = "Yes"
    /\ NotLocal(last.widget)
    /\ kernels # <<>>

\* C20: the interrupt or restart requested from a client right after its
\* kernel was found dead is rejected: no interrupt is sent, no kernel started
C20_DeadKernelRejects ==
    [][(/\ last.op = "died"
        /\ last'.op \in {"interrupt", "restart"}
        /\ clients[last'.widget].kernel_widget_id = last.kernel) =>
          /\ last'.op = "interrupt" => last'.target = None
          /\ last'.op = "restart" => kernels' = kernels]_vars

\* C21: a client made by new_client with a kernel_widget_id given by the
\* caller has that kernel_widget_id, whatever clients are registered
C21_GivenKernelIdIsKept ==
    [][(last'.op = "new_client" /\ last'.ok /\ last'.kwid # None) =>
          clients'[last'.widget].kernel_widget_id = last'.kwid]_vars

\* C22: move_tab(index_from, index_to) puts the client of index_from at
\* index_to, keeps the order of the others, and changes no client
C22_MoveTabIsStableMove ==
    [][last'.op = "move_tab" =>
          /\ shellwidgets'[last'.to] = shellwidgets[last'.from]
          /\ RemoveAt(shellwidgets', last'.to)
                = RemoveAt(shellwidgets, last'.from)
          /\ Len(shellwidgets') = Len(shellwidgets)
          /\ Range(shellwidgets') = Range(shellwidgets)
          /\ clients' = clients]_vars

\* a tab is moved over two others
C22_Witness ==
    /\ last.op = "move_tab"
    /\ Len(shellwidgets) = 3
    /\ last.to = 1 /\ last.from = 3
    /\ shellwidgets[1] = last.widget

\* C23: asking for a restart closes no kernel; the old kernel is closed by
\* connect_to_new_kernel, which runs for a restart that was confirmed and
\* whose new kernel is already running, and a client is connected to the new
\* kernel only once its old kernel is closed
C23_OldKernelClosedAfterNewStarted ==
    [][/\ last'.op = "restart" =>
             \A k \in Range(kernels) : k \in Range(kernels')
       /\ (last'.op = "connect" /\ last'.widget # None) =>
             /\ last'.kernel \in Range(kernels)
             /\ [kernel |-> last'.kernel, origin |-> last'.origin]
                   \in pending
             /\ last'.ok => last'.old \notin Range(kernels')]_vars

C23_Witness ==
    /\ last.op = "connect" /\ last.ok
    /\ last.old # None /\ last.old # last.kernel
    /\ last.old \notin Range(kernels)
    /\ last.kernel \in Range(kernels)
    /\ clients[last.widget].kernel_widget_id = last.kernel

\* C24: connect_to_new_kernel changes one client only: the list of clients
\* is the same and every other client, also one that has the same old
\* kernel, keeps all its attributes
C24_RestartChangesOneClient ==
    [][last'.op = "connect" =>
          /\ shellwidgets' = shellwidgets
          /\ \A c \in Registered \ {last'.widget} :
                 clients'[c] = clients[c]]_vars

\* a client is connected to a new kernel while another one keeps the old
\* kernel_widget_id
C24_Witness ==
    /\ last.op = "connect" /\ last.ok
    /\ last.old # None
    /\ \E c \in Registered \ {last.widget} :
          clients[c].kernel_widget_id = last.old

\* C25: the kernel_widget_id of a client that stays registered changes in
\* connect_to_new_kernel only
C25_KernelIdChangesOnlyInRestart ==
    [][(\E c \in Registered \cap Range(shellwidgets') :
           clients'[c].kernel_widget_id # clients[c].kernel_widget_id)
         => last'.op = "connect"]_vars

\* a tab is dragged after its client was connected to a new kernel
C25_Witness ==
    /\ last.op = "move_tab" /\ last.from # last.to
    /\ \E c \in Registered :
          /\ clients[c].kernel_widget_id # None
          /\ ConnectionFile(clients[c].kernel_widget_id)
                # clients[c].connection_file

\* C26: the target of a client's interrupt is the one register_client chose
\* (the last kernel of the external console when it has the client's
\* connection file, else the message); no later operation changes it, and
\* every interrupt of the client goes to it
C26_InterruptTargetIsFixed ==
    [][/\ (last'.op = "new_client" /\ last'.ok) =>
             clients'[last'.widget].interrupt_to
               = SpyderKernel(kernels, last'.cf)
       /\ \A c \in Registered \cap Range(shellwidgets') :
             clients'[c].interrupt_to = clients[c].interrupt_to
       /\ last'.op = "interrupt" =>
             last'.target = clients[last'.widget].interrupt_to]_vars

\* an interrupt of a client that was connected to a new kernel goes to the
\* kernel it had first
C26_Witness ==
    /\ last.op = "interrupt"
    /\ last.target # None
    /\ clients[last.widget].kernel_widget_id # last.target
    /\ clients[last.widget].kernel_widget_id \in Range(kernels)

\* C27: a new_client that succeeds puts the new client last in shellwidgets;
\* the clients that were registered keep their order and attributes
C27_NewClientIsAppended ==
    [][(last'.op = "new_client" /\ last'.ok) =>
          /\ shellwidgets' = Append(shellwidgets, last'.widget)
          /\ last'.widget \notin Registered
          /\ \A c \in Registered : clients'[c] = clients[c]]_vars

C27_Witness ==
    /\ last.op = "new_client" /\ last.ok
    /\ Len(shellwidgets) >= 2
    /\ shellwidgets[Len(shellwidgets)] = last.widget

\* C28: new_client without kernel_widget_id, when fragment/A is no client's
\* name: the client gets the id of a kernel of the external console that has
\* its connection file, or None when there is none; no kernel is started and
\* the client is registered
C28_KernelIdFromConsole ==
    [][(/\ last'.op = "new_client" /\ last'.ok /\ last'.kwid = None
        /\ MatchKernel(last'.cf, HexChars)[1] \o "/A" \notin Names) =>
          LET with == {k \in Range(kernels) : ConnectionFile(k) = last'.cf}
              id == clients'[last'.widget].kernel_widget_id
          IN /\ with # {} => id \in with
             /\ with = {} => id = None
             /\ kernels' = kernels /\ nstarted' = nstarted
             /\ last'.widget \in Range(shellwidgets')]_vars

\* a client is made for a connection file no kernel of the external console
\* has, while kernels are running
C28_Witness ==
    /\ last.op = "new_client" /\ last.ok /\ last.kwid = None
    /\ last.name = "ab/A"
    /\ kernels # <<>>
    /\ clients[last.widget].kernel_widget_id = None

\* C29: if_kernel_dies runs in registered clients only, never in a client
\* that close_console closed, and in no client once closing_plugin has run
C29_ClosedClientNotNotified ==
    [][last'.op = "died" =>
          /\ last'.notified \subseteq Registered
          /\ last.op = "closing_plugin" => last'.notified = {}]_vars

\* a kernel dies after one of its clients was closed
C29_Witness ==
    /\ last.op = "died"
    /\ \E c \in DOMAIN clients \ Registered :
          clients[c].kernel_manager = ConnectionFile(last.kernel)

\* C30: a restart that succeeds closes no kernel but the one the client it
\* was requested from had, and the new kernel is running afterwards
C30_RestartClosesOnlyOldKernel ==
    [][(last'.op = "connect" /\ last'.ok) =>
          /\ \A k \in Range(kernels) \ Range(kernels') :
                 k = clients[last'.origin].kernel_widget_id
          /\ last'.kernel \in Range(kernels')]_vars

\* C31: one close request asks for confirmation at most once: the closes of
\* related clients it triggers ask nothing more, so none of them can be
\* cancelled on its own, whatever connects and restarts came before
C31_SinglePrompt ==
    [][IsClose => Len(last'.answers) <= 1]_vars

\* C32: with n clients registered, the name new_client chooses is
\* fragment/L with L among the first n+1 letters (at most n+1 candidates
\* are tried), and choosing it changes neither the client_name nor the
\* kernel_widget_id of a registered client
C32_AllocationIsBounded ==
    [][IsAllocation =>
          LET frag == MatchKernel(last'.cf, HexChars)[1]
              n == Len(shellwidgets)
          IN /\ \E count \in 0..n : last'.name = frag \o "/" \o Chr65(count)
             /\ \A c \in Registered :
                    /\ clients'[c].client_name = clients[c].client_name
                    /\ clients'[c].kernel_widget_id =
                           clients[c].kernel_widget_id]_vars

\* a client is registered under letter B, found after the candidate A
\* collided with the name of a registered client
C32_Witness ==
    /\ last.op = "new_client" /\ last.ok
    /\ last.name = MatchKernel(last.cf, HexChars)[1] \o "/B"
    /\ \E c \in Registered :
           /\ c # last.widget
           /\ clients[c].client_name = MatchKernel(last.cf, HexChars)[1] \o "/A"

============================================================================
